---- MODULE Spec2Model ----
(***************************************************************************)
(* FlowForge (src/src/App.tsx): the session clock and the history log of   *)
(* the HybridPomodoroApp component.                                        *)
(*                                                                         *)
(* The component is a React function component.  Its state is a bundle of  *)
(* useState slices and two refs.  An event callback (a click handler or    *)
(* the interval callback `tick`) queues state updates and writes the refs  *)
(* at once; React then renders and runs, in declaration order, the effects *)
(* whose dependencies differ from the previous render (action Commit).     *)
(* The state variables hold the state with every queued update applied;    *)
(* `rendered` holds the dependency values of the last render.  Click       *)
(* handlers are taken on a settled component (their updates are flushed    *)
(* synchronously); the interval callback may run between two commits.      *)
(***************************************************************************)
EXTENDS Integers, Sequences, FiniteSets, TLC

VARIABLES
    now,                \* Date.now(), epoch milliseconds
    settings,           \* useState<Settings>
    isRunning,          \* useState<boolean>
    phase,              \* useState<Phase>
    remaining,          \* useState<number>, seconds
    completedSessions,  \* useState<number>
    history,            \* useState<HistoryMap>: date-key -> HistoryDay
    targetRef,          \* useRef: epoch ms at which the phase ends, or Null
    intervalRef,        \* useRef: id of the interval, or Null
    polls,              \* ids of the intervals registered with window.setInterval
    rendered,           \* dependency values seen by the last render
    mounted,            \* the component is mounted
    audio,              \* the browser's Web Audio capability: "ok" or "unavailable"
    call,               \* the last call of a helper function, with its result
    dark,               \* dark theme on
    tasks,              \* the task list, newest first
    categories,         \* category names
    projects,           \* project names
    ls,                 \* localStorage: key -> entry
    unsaved,            \* keys whose slice got a new value or reference since the last render
    lastTickRef,        \* earlier versions' useRef: performance.now() of the last tick, or Null
    run                 \* earlier versions: the live interval, when it was set and what it has done

vars == <<now, settings, isRunning, phase, remaining, completedSessions, history,
          targetRef, intervalRef, polls, rendered, mounted, audio, call,
          dark, tasks, categories, projects, ls, unsaved, lastTickRef, run>>

\* the slices outside the timer, localStorage and the pending persist effects
persistVars == <<dark, tasks, categories, projects, ls, unsaved>>

\* what no timer action changes
fixedVars == <<audio, call, lastTickRef, run>>

-----------------------------------------------------------------------------
(* Bounds of the model *)

ObserveEveryMin == 5            \* the wall clock is observed every so many minutes,
MaxObs == 2                     \* this many times after the first,
LateMs == 400                   \* and once more this many milliseconds later
StoreObs == 1                   \* observations of the clock while the slices are edited
MaxTasks == 1                   \* tasks in the list at a time
MaxDays == 3                    \* days asked of lastNDays
MaxOldTicks == 6                \* callbacks of one interval of the earlier versions' engine
TaskTitles == {"Write report"}  \* titles typed into the task form
NewNames == {"Docs"}            \* names typed into the category and project forms
CustomFocusInputs == {3}        \* values typed into the custom focus field
CustomBreakInputs == {0, 5}     \* values typed into the custom break field

-----------------------------------------------------------------------------
(* Program constants *)

Null == -1
SecPerMin == 60
MsPerSec == 1000
MsPerDay == 86400000
MinCustomFocus == 5
MinCustomBreak == 1

Fracs == {0, LateMs}

\* The observations start one period and LateMs before the UTC date changes
\* from 1970-01-01 to 1970-01-02.
Epoch0 == MsPerDay - ObserveEveryMin * SecPerMin * MsPerSec - LateMs

Instants ==
    {Epoch0 + m * ObserveEveryMin * SecPerMin * MsPerSec + f : m \in 0..MaxObs, f \in Fracs}

DeepWork == [name |-> "Deep Work (90/15)", focusMin |-> 90, breakMin |-> 15]
Flow == [name |-> "Flow (50/10)", focusMin |-> 50, breakMin |-> 10]

defaultSettings ==
    [presetName |-> "Deep Work (90/15)", focusMin |-> 90, breakMin |-> 15,
     autoStartNext |-> TRUE]

-----------------------------------------------------------------------------
(* Helpers *)

Max(a, b) == IF a >= b THEN a ELSE b

\* Math.ceil(a / b) for a >= 0, b > 0
Ceil(a, b) == (a + b - 1) \div b

\* as SecLeft, without Math.max(0, ...)
SecLeft_NoClamp(target, t) == Ceil(target - t, MsPerSec)

\* as SecLeft, rounding down (Math.floor for Math.ceil)
SecLeft_Floor(target, t) == Max(0, target - t) \div MsPerSec

\* tick / pause: Math.ceil(Math.max(0, targetRef.current - Date.now()) / 1000)
SecLeft(target, t) == Ceil(Max(0, target - t), MsPerSec)

\* as FullDuration, the two durations exchanged
FullDuration_Swapped(p, s) == (IF p = "focus" THEN s.breakMin ELSE s.focusMin) * SecPerMin

\* (phase === "focus" ? settings.focusMin : settings.breakMin) * 60
FullDuration(p, s) == (IF p = "focus" THEN s.focusMin ELSE s.breakMin) * SecPerMin

OtherPhase(p) == IF p = "focus" THEN "break" ELSE "focus"

\* as pad, never a leading zero
pad_Never(n) == ToString(n)

pad(n) == IF n < 10 THEN "0" \o ToString(n) ELSE ToString(n)

\* `${pad(Math.floor(s / 60))}:${pad(Math.floor(s % 60))}`, s a whole number
secondsToClock(s) == pad(s \div SecPerMin) \o ":" \o pad(s % SecPerMin)

\* Date.prototype.toISOString().slice(0, 10): the UTC calendar date of the
\* instant, as YYYY-MM-DD (proleptic Gregorian calendar, years 0..9999).
ISODate(ms) ==
    LET days == ms \div MsPerDay
        z    == days + 719468
        era  == z \div 146097
        doe  == z - era * 146097
        yoe  == (doe - doe \div 1460 + doe \div 36524 - doe \div 146096) \div 365
        doy  == doe - (365 * yoe + yoe \div 4 - yoe \div 100)
        mp   == (5 * doy + 2) \div 153
        d    == doy - (153 * mp + 2) \div 5 + 1
        m    == IF mp < 10 THEN mp + 3 ELSE mp - 9
        y    == yoe + era * 400 + (IF m <= 2 THEN 1 ELSE 0)
        yyyy == IF y < 10 THEN "000" \o ToString(y)
                ELSE IF y < 100 THEN "00" \o ToString(y)
                ELSE IF y < 1000 THEN "0" \o ToString(y)
                ELSE ToString(y)
    IN  yyyy \o "-" \o pad(m) \o "-" \o pad(d)

todayKey(t) == ISODate(t)

EmptyDay == [count |-> 0, minutes |-> 0, sessions |-> <<>>]

\* h[key] || { count: 0, minutes: 0, sessions: [] }
DayOf(h, key) == IF key \in DOMAIN h THEN h[key] ELSE EmptyDay

(* Local time, as the Date methods getDate / setDate / toLocaleDateString see
   it: a time zone whose offset from UTC (in minutes) changes once, at the
   instant `at`; a zone without daylight saving has before = after. *)
ZoneOffset(z, utc) == IF utc < z.at THEN z.before ELSE z.after

\* the local wall-clock reading of an instant, as ms since the local epoch
LocalTime(z, utc) == utc + ZoneOffset(z, utc) * SecPerMin * MsPerSec

\* the instant of a local wall-clock reading; a reading that occurs twice or
\* not at all is taken with the offset before the change
UTCOf(z, local) ==
    LET uB == local - z.before * SecPerMin * MsPerSec
        uA == local - z.after * SecPerMin * MsPerSec
    IN  IF uB < z.at THEN uB ELSE IF uA >= z.at THEN uA ELSE uB

\* `dt = new Date(d); dt.setDate(d.getDate() - i)`: the same local time of day,
\* i local calendar days earlier
setDate(z, d, i) == UTCOf(z, LocalTime(z, d) - i * MsPerDay)

\* lastNDays(n) called at instant d in zone z with history h; the label is the
\* local calendar date, written here in the YYYY-MM-DD form
lastNDays(n, d, z, h) ==
    [j \in 1..n |->
        LET dt  == setDate(z, d, n - j)
            key == ISODate(dt)
        IN  [key |-> key, label |-> ISODate(LocalTime(z, dt)), data |-> DayOf(h, key)]]

\* as RecordCompletion, the day's count left as it was
RecordCompletion_NoCount(h, key, minutes, preset, ts) ==
    LET day == DayOf(h, key)
    IN  [k \in DOMAIN h \cup {key} |->
            IF k = key
            THEN [count    |-> day.count,
                  minutes  |-> day.minutes + minutes,
                  sessions |-> Append(day.sessions,
                                 [ts |-> ts, minutes |-> minutes, preset |-> preset])]
            ELSE h[k]]

\* as RecordCompletion, the day's sessions replaced by the new record
RecordCompletion_Overwrite(h, key, minutes, preset, ts) ==
    LET day == DayOf(h, key)
    IN  [k \in DOMAIN h \cup {key} |->
            IF k = key
            THEN [count    |-> day.count + 1,
                  minutes  |-> day.minutes + minutes,
                  sessions |-> <<[ts |-> ts, minutes |-> minutes, preset |-> preset]>>]
            ELSE h[k]]

\* the updater passed to setHistory by the phase switcher
RecordCompletion(h, key, minutes, preset, ts) ==
    LET day == DayOf(h, key)
    IN  [k \in DOMAIN h \cup {key} |->
            IF k = key
            THEN [count    |-> day.count + 1,
                  minutes  |-> day.minutes + minutes,
                  sessions |-> Append(day.sessions,
                                 [ts |-> ts, minutes |-> minutes, preset |-> preset])]
            ELSE h[k]]

EmptyHistory == [k \in {} |-> EmptyDay]

\* as AutoStart, the setting ignored
AutoStart_Always == TRUE

\* as AutoStart, the next phase never started
AutoStart_Never == FALSE

\* `if (settings.autoStartNext)` in the phase switcher and in skip
AutoStart == settings.autoStartNext

\* the values the effects' dependency arrays are built from
Deps ==
    [focusMin |-> settings.focusMin, breakMin |-> settings.breakMin,
     autoStartNext |-> settings.autoStartNext, presetName |-> settings.presetName,
     phase |-> phase, isRunning |-> isRunning, remaining |-> remaining]

\* a render is pending: some effect has a changed dependency
Dirty == Deps # rendered \/ unsaved # {}

\* the component is mounted and no render is pending
Settled == mounted /\ ~Dirty

\* window.setInterval returns an id that is not in use
NewId(active) == IF active = {} THEN 1
                 ELSE 1 + CHOOSE i \in active : \A j \in active : j <= i

(* JSON texts and localStorage.  A JavaScript value is a record tagged with
   its type; an object is the sequence of its members in insertion order.  A
   text is the sequence of its lexical tokens. *)

JNum(n)  == [t |-> "num",  v |-> n]
JStr(str) == [t |-> "str",  v |-> str]
JBool(b) == [t |-> "bool", v |-> b]
JNull    == [t |-> "null", v |-> 0]
JArr(elems)   == [t |-> "arr", v |-> elems]
JObj(members) == [t |-> "obj", v |-> members]
Member(key, val) == [k |-> key, val |-> val]

P(c)          == [t |-> "p", v |-> c]        \* one of { } [ ] : ,
StringTok(str) == [t |-> "string", v |-> str]
NumberTok(n)  == [t |-> "number", v |-> n]
WordTok(w)    == [t |-> "word", v |-> w]     \* true, false, null, or any other bare word

RECURSIVE JSONStringify(_), StringifyElems(_), StringifyMembers(_)

\* JSON.stringify(value), for the values a slice can hold
JSONStringify(value) ==
    CASE value.t = "num"  -> <<NumberTok(value.v)>>
      [] value.t = "str"  -> <<StringTok(value.v)>>
      [] value.t = "bool" -> <<WordTok(IF value.v THEN "true" ELSE "false")>>
      [] value.t = "null" -> <<WordTok("null")>>
      [] value.t = "arr"  -> <<P("[")>> \o StringifyElems(value.v) \o <<P("]")>>
      [] value.t = "obj"  -> <<P("{")>> \o StringifyMembers(value.v) \o <<P("}")>>

StringifyElems(elems) ==
    IF elems = <<>> THEN <<>>
    ELSE JSONStringify(Head(elems))
         \o (IF Len(elems) > 1 THEN <<P(",")>> ELSE <<>>)
         \o StringifyElems(Tail(elems))

StringifyMembers(members) ==
    IF members = <<>> THEN <<>>
    ELSE <<StringTok(Head(members).k), P(":")>> \o JSONStringify(Head(members).val)
         \o (IF Len(members) > 1 THEN <<P(",")>> ELSE <<>>)
         \o StringifyMembers(Tail(members))

\* the outcome of a parsing step: a value and the position after it, or a
\* SyntaxError
Parsed(value, next) == [ok |-> TRUE, v |-> value, next |-> next]
SyntaxError == [ok |-> FALSE, v |-> JNull, next |-> 0]

\* obj[key] = val: a repeated key keeps its place and takes the later value
SetMember(members, key, val) ==
    IF \E i \in 1..Len(members) : members[i].k = key
    THEN [i \in 1..Len(members) |->
            IF members[i].k = key THEN Member(key, val) ELSE members[i]]
    ELSE Append(members, Member(key, val))

RECURSIVE ParseValue(_, _), ParseElems(_, _, _), ParseMembers(_, _, _)

ParseValue(text, i) ==
    IF i > Len(text) THEN SyntaxError
    ELSE LET tk == text[i]
         IN  CASE tk.t = "number" -> Parsed(JNum(tk.v), i + 1)
               [] tk.t = "string" -> Parsed(JStr(tk.v), i + 1)
               [] tk.t = "word" ->
                    IF tk.v = "true" THEN Parsed(JBool(TRUE), i + 1)
                    ELSE IF tk.v = "false" THEN Parsed(JBool(FALSE), i + 1)
                    ELSE IF tk.v = "null" THEN Parsed(JNull, i + 1)
                    ELSE SyntaxError
               [] tk.t = "p" ->
                    IF tk.v = "["
                    THEN IF i + 1 <= Len(text) /\ text[i + 1] = P("]")
                         THEN Parsed(JArr(<<>>), i + 2)
                         ELSE ParseElems(text, i + 1, <<>>)
                    ELSE IF tk.v = "{"
                    THEN IF i + 1 <= Len(text) /\ text[i + 1] = P("}")
                         THEN Parsed(JObj(<<>>), i + 2)
                         ELSE ParseMembers(text, i + 1, <<>>)
                    ELSE SyntaxError

\* the elements of an array from position i on, `acc` read so far
ParseElems(text, i, acc) ==
    LET r == ParseValue(text, i)
    IN  IF ~r.ok \/ r.next > Len(text) THEN SyntaxError
        ELSE IF text[r.next] = P(",") THEN ParseElems(text, r.next + 1, Append(acc, r.v))
        ELSE IF text[r.next] = P("]") THEN Parsed(JArr(Append(acc, r.v)), r.next + 1)
        ELSE SyntaxError

\* the members of an object from position i on, `acc` read so far
ParseMembers(text, i, acc) ==
    IF i + 1 > Len(text) \/ text[i].t # "string" \/ text[i + 1] # P(":")
    THEN SyntaxError
    ELSE LET r == ParseValue(text, i + 2)
         IN  IF ~r.ok \/ r.next > Len(text) THEN SyntaxError
             ELSE IF text[r.next] = P(",")
             THEN ParseMembers(text, r.next + 1, SetMember(acc, text[i].v, r.v))
             ELSE IF text[r.next] = P("}")
             THEN Parsed(JObj(SetMember(acc, text[i].v, r.v)), r.next + 1)
             ELSE SyntaxError

\* JSON.parse(text): the whole text is one value, or a SyntaxError is thrown
JSONParse(text) ==
    LET r == ParseValue(text, 1)
    IN  IF r.ok /\ r.next = Len(text) + 1 THEN r ELSE SyntaxError

\* the namespaced keys
KeyTheme      == "pomodoro_theme_v1"
KeySettings   == "pomodoro_settings_v4"
KeyTasks      == "pomodoro_tasks_v4"
KeyCategories == "pomodoro_categories_v4"
KeyProjects   == "pomodoro_projects_v2"
KeyHistory    == "pomodoro_history_v3"
StorageKeys ==
    {KeyTheme, KeySettings, KeyTasks, KeyCategories, KeyProjects, KeyHistory}

\* an entry of localStorage: absent (getItem returns null) or a text
Absent == [present |-> FALSE, text |-> <<>>]
Stored(text) == [present |-> TRUE, text |-> text]
EmptyStorage == [k \in StorageKeys |-> Absent]

\* what a call returns when an exception leaves it
Thrown == [t |-> "exception", v |-> 0]

\* as loadLS, without the try / catch
loadLS_NoCatch(store, key, fallback) ==
    LET item == store[key]
    IN  IF item.present /\ item.text # <<>>
        THEN IF JSONParse(item.text).ok THEN JSONParse(item.text).v ELSE Thrown
        ELSE fallback

\* loadLS(key, fallback): `v ? JSON.parse(v) : fallback`, fallback on a throw
loadLS(store, key, fallback) ==
    LET item == store[key]
    IN  IF item.present /\ item.text # <<>>
        THEN IF JSONParse(item.text).ok THEN JSONParse(item.text).v ELSE fallback
        ELSE fallback

\* as saveLS, without JSON.stringify: setItem turns the value into a string
saveLS_NoStringify(store, key, value) ==
    [store EXCEPT ![key] = Stored(<<WordTok("[object Object]")>>)]

\* saveLS(key, value): localStorage.setItem(key, JSON.stringify(value))
saveLS(store, key, value) == [store EXCEPT ![key] = Stored(JSONStringify(value))]

\* localStorage.removeItem(key)
removeItem(store, key) == [store EXCEPT ![key] = Absent]

DEFAULT_CATEGORIES == <<"General", "Feature", "Bugfix", "Review">>
DEFAULT_PROJECTS == <<"General", "MindMesh", "Client A">>

\* the slices as JavaScript values, members in the order the code writes them
SettingsJS(s) ==
    JObj(<<Member("presetName", JStr(s.presetName)),
           Member("focusMin", JNum(s.focusMin)),
           Member("breakMin", JNum(s.breakMin)),
           Member("autoStartNext", JBool(s.autoStartNext))>>)

TaskJS(task) ==
    JObj(<<Member("id", JStr(task.id)),
           Member("title", JStr(task.title)),
           Member("category", JStr(task.category)),
           Member("project", JStr(task.project)),
           Member("done", JBool(task.done)),
           Member("createdAt", JNum(task.createdAt))>>)

TasksJS(list) == JArr([i \in 1..Len(list) |-> TaskJS(list[i])])

NamesJS(names) == JArr([i \in 1..Len(names) |-> JStr(names[i])])

SessionJS(sess) ==
    JObj(<<Member("ts", JNum(sess.ts)),
           Member("minutes", JNum(sess.minutes)),
           Member("preset", JStr(sess.preset))>>)

DayJS(day) ==
    JObj(<<Member("count", JNum(day.count)),
           Member("minutes", JNum(day.minutes)),
           Member("sessions",
                  JArr([i \in 1..Len(day.sessions) |-> SessionJS(day.sessions[i])]))>>)

RECURSIVE KeyOrder(_, _)
\* the date-keys `keys` of h in insertion order: a day is inserted by its
\* first session
KeyOrder(h, keys) ==
    IF keys = {} THEN <<>>
    ELSE LET first == CHOOSE k \in keys :
                        \A j \in keys : h[k].sessions[1].ts <= h[j].sessions[1].ts
         IN  <<first>> \o KeyOrder(h, keys \ {first})

HistoryJS(h) ==
    LET keys == KeyOrder(h, DOMAIN h)
    IN  JObj([i \in 1..Len(keys) |-> Member(keys[i], DayJS(h[keys[i]]))])

\* the value a persist effect saves under key k
SliceJS(k) ==
    CASE k = KeyTheme      -> JBool(dark)
      [] k = KeySettings   -> SettingsJS(settings)
      [] k = KeyTasks      -> TasksJS(tasks)
      [] k = KeyCategories -> NamesJS(categories)
      [] k = KeyProjects   -> NamesJS(projects)
      [] k = KeyHistory    -> HistoryJS(history)

\* the effects `useEffect(() => saveLS(key, slice), [slice])` whose slice is
\* in `keys`
PersistEffects(store, keys) ==
    [k \in StorageKeys |->
        IF k \in keys THEN saveLS(store, k, SliceJS(k))[k] ELSE store[k]]

\* constructing the AudioContext works, or throws
AudioOutcomes == {"ok", "unavailable"}

\* a call of a helper function: what it is given (an entry of localStorage
\* under a key with the value its text stands for, if any; a fallback; a value
\* to save; an instant and the offset of local time from UTC in minutes) and
\* what it returned
FnCall(op, key, entry, valid, value, fallback, t, offset, result) ==
    [op |-> op, key |-> key, entry |-> entry, valid |-> valid, value |-> value,
     fallback |-> fallback, t |-> t, offset |-> offset, result |-> result]

\* no helper function has been called
NoCall == FnCall("none", KeySettings, Absent, FALSE, JNull, JNull, 0, 0, JNull)

-----------------------------------------------------------------------------
(* Initial state: first run (empty localStorage), after the mount effects *)

\* no interval is live
NoRun == [at |-> Null, fired |-> 0, from |-> 0, onSchedule |-> FALSE]

InitApp ==
    /\ now \in {Epoch0 + f : f \in Fracs}
    /\ lastTickRef = Null
    /\ run = NoRun
    /\ settings = defaultSettings
    /\ isRunning = FALSE
    /\ phase = "focus"
    /\ remaining = defaultSettings.focusMin * SecPerMin
    /\ completedSessions = 0
    /\ history = EmptyHistory
    /\ targetRef = Null
    /\ intervalRef = Null
    /\ polls = {}
    /\ rendered = [focusMin |-> defaultSettings.focusMin,
                   breakMin |-> defaultSettings.breakMin,
                   autoStartNext |-> defaultSettings.autoStartNext,
                   presetName |-> defaultSettings.presetName,
                   phase |-> "focus", isRunning |-> FALSE,
                   remaining |-> defaultSettings.focusMin * SecPerMin]
    /\ mounted = TRUE
    /\ audio \in AudioOutcomes
    /\ dark = FALSE
    /\ tasks = <<>>
    /\ categories = DEFAULT_CATEGORIES
    /\ projects = DEFAULT_PROJECTS
    /\ unsaved = {}
    /\ ls = PersistEffects(EmptyStorage, StorageKeys)

Init == InitApp /\ call = NoCall

-----------------------------------------------------------------------------
(* The wall clock *)

Advance ==
    /\ \E t \in Instants : t > now /\ now' = t
    /\ UNCHANGED <<settings, isRunning, phase, remaining, completedSessions, history,
                   targetRef, intervalRef, polls, rendered,
                   mounted, fixedVars, persistVars>>

-----------------------------------------------------------------------------
(* Timer actions (click handlers) *)

\* as start, without the guard on isRunning
start_Rearm ==
    /\ Settled
    /\ targetRef' = now + remaining * MsPerSec
    /\ isRunning' = TRUE
    /\ UNCHANGED <<now, settings, phase, remaining, completedSessions, history,
                   intervalRef, polls, rendered,
                   mounted, fixedVars, persistVars>>

start ==
    /\ Settled
    /\ IF ~isRunning
       THEN /\ targetRef' = now + remaining * MsPerSec
            /\ isRunning' = TRUE
       ELSE UNCHANGED <<targetRef, isRunning>>
    /\ UNCHANGED <<now, settings, phase, remaining, completedSessions, history,
                   intervalRef, polls, rendered,
                   mounted, fixedVars, persistVars>>

\* as pause, the deadline left armed
pause_KeepsDeadline ==
    /\ Settled
    /\ IF isRunning
       THEN /\ remaining' = IF targetRef # Null THEN SecLeft(targetRef, now)
                            ELSE remaining
            /\ isRunning' = FALSE
       ELSE UNCHANGED <<remaining, isRunning>>
    /\ UNCHANGED <<now, settings, phase, completedSessions, history,
                   targetRef, intervalRef, polls, rendered,
                   mounted, fixedVars, persistVars>>

pause ==
    /\ Settled
    /\ IF isRunning
       THEN /\ remaining' = IF targetRef # Null THEN SecLeft(targetRef, now)
                            ELSE remaining
            /\ isRunning' = FALSE
            /\ targetRef' = Null
       ELSE UNCHANGED <<remaining, isRunning, targetRef>>
    /\ UNCHANGED <<now, settings, phase, completedSessions, history,
                   intervalRef, polls, rendered,
                   mounted, fixedVars, persistVars>>

\* as reset, without setCompletedSessions(0)
reset_KeepsCount ==
    /\ Settled
    /\ isRunning' = FALSE
    /\ targetRef' = Null
    /\ phase' = "focus"
    /\ remaining' = settings.focusMin * SecPerMin
    /\ UNCHANGED <<now, settings, completedSessions, history, intervalRef, polls,
                   rendered,
                   mounted, fixedVars, persistVars>>

reset ==
    /\ Settled
    /\ isRunning' = FALSE
    /\ targetRef' = Null
    /\ phase' = "focus"
    /\ remaining' = settings.focusMin * SecPerMin
    /\ completedSessions' = 0
    /\ UNCHANGED <<now, settings, history, intervalRef, polls, rendered,
                   mounted, fixedVars, persistVars>>

\* as skip, logging the skipped Focus phase as a completed session
skip_Logging ==
    /\ Settled
    /\ phase' = OtherPhase(phase)
    /\ remaining' = FullDuration(OtherPhase(phase), settings)
    /\ history' = IF phase = "focus"
                  THEN RecordCompletion(history, todayKey(now), settings.focusMin,
                                        settings.presetName, now)
                  ELSE history
    /\ IF AutoStart
       THEN /\ isRunning' = TRUE
            /\ targetRef' = now + FullDuration(OtherPhase(phase), settings) * MsPerSec
       ELSE /\ isRunning' = FALSE
            /\ targetRef' = Null
    /\ UNCHANGED <<now, settings, completedSessions, intervalRef, polls, rendered,
                   mounted, fixedVars, persistVars>>

\* as skip, never starting the next phase
skip_NoAutoStart ==
    /\ Settled
    /\ phase' = OtherPhase(phase)
    /\ remaining' = FullDuration(OtherPhase(phase), settings)
    /\ isRunning' = FALSE
    /\ targetRef' = Null
    /\ UNCHANGED <<now, settings, completedSessions, history,
                   intervalRef, polls, rendered, mounted, fixedVars, persistVars>>

skip ==
    /\ Settled
    /\ phase' = OtherPhase(phase)
    /\ remaining' = FullDuration(OtherPhase(phase), settings)
    /\ IF AutoStart
       THEN /\ isRunning' = TRUE
            /\ targetRef' = now + FullDuration(OtherPhase(phase), settings) * MsPerSec
       ELSE /\ isRunning' = FALSE
            /\ targetRef' = Null
    /\ UNCHANGED <<now, settings, completedSessions, history,
                   intervalRef, polls, rendered,
                   mounted, fixedVars, persistVars>>

\* as ApplyPresetUpdates, without setPhase("focus"): the phase is kept
ApplyPresetUpdates_KeepPhase(name, focusMin, breakMin) ==
    /\ settings' = [settings EXCEPT !.presetName = name, !.focusMin = focusMin,
                                    !.breakMin = breakMin]
    /\ phase' = phase
    /\ isRunning' = FALSE
    /\ targetRef' = Null
    /\ remaining' = (IF phase = "focus" THEN focusMin ELSE breakMin) * SecPerMin

\* as ApplyPresetUpdates, only the setSettings call
ApplyPresetUpdates_SettingsOnly(name, focusMin, breakMin) ==
    /\ settings' = [settings EXCEPT !.presetName = name, !.focusMin = focusMin,
                                    !.breakMin = breakMin]
    /\ UNCHANGED <<phase, isRunning, targetRef, remaining>>

\* the state updates of applyPreset(name, focusMin, breakMin)
ApplyPresetUpdates(name, focusMin, breakMin) ==
    /\ settings' = [settings EXCEPT !.presetName = name, !.focusMin = focusMin,
                                    !.breakMin = breakMin]
    /\ phase' = "focus"
    /\ isRunning' = FALSE
    /\ targetRef' = Null
    /\ remaining' = focusMin * SecPerMin

applyPreset(name, focusMin, breakMin) ==
    /\ Settled
    /\ ApplyPresetUpdates(name, focusMin, breakMin)
    /\ unsaved' = unsaved \cup {KeySettings}
    /\ UNCHANGED <<now, completedSessions, history, intervalRef, polls, rendered,
                   mounted, fixedVars, dark, tasks, categories, projects, ls>>

\* the two preset buttons
ApplyBuiltin ==
    \E p \in {DeepWork, Flow} : applyPreset(p.name, p.focusMin, p.breakMin)

\* as ApplyCustom, without the two Math.max floors
ApplyCustom_NoClamp ==
    \E f \in CustomFocusInputs, b \in CustomBreakInputs :
        applyPreset("Custom", f, b)

\* the "Apply Custom" button
ApplyCustom ==
    \E f \in CustomFocusInputs, b \in CustomBreakInputs :
        applyPreset("Custom", Max(MinCustomFocus, f), Max(MinCustomBreak, b))

\* the auto-start checkbox
ToggleAutoStart ==
    /\ Settled
    /\ LET checked == ~settings.autoStartNext
       IN  settings' = [settings EXCEPT !.autoStartNext = checked]
    /\ unsaved' = unsaved \cup {KeySettings}
    /\ UNCHANGED <<now, isRunning, phase, remaining, completedSessions, history,
                   targetRef, intervalRef, polls, rendered,
                   mounted, fixedVars, dark, tasks, categories, projects, ls>>

\* the "Reset All Data" button, confirmed
\* as ResetAllWrites, only the slices whose value changes
ResetAllWrites_IfChanged ==
    (IF tasks # <<>> THEN {KeyTasks} ELSE {})
    \cup (IF categories # DEFAULT_CATEGORIES THEN {KeyCategories} ELSE {})
    \cup (IF projects # DEFAULT_PROJECTS THEN {KeyProjects} ELSE {})
    \cup (IF history # EmptyHistory THEN {KeyHistory} ELSE {})
    \cup (IF dark THEN {KeyTheme} ELSE {})
    \cup (IF [settings EXCEPT !.autoStartNext = TRUE] # defaultSettings
          THEN {KeySettings} ELSE {})

\* the slices Reset All Data gives a new reference (a new array or object each
\* time) or, for the theme flag, a new value
ResetAllWrites ==
    {KeyTasks, KeyCategories, KeyProjects, KeyHistory, KeySettings}
    \cup (IF dark THEN {KeyTheme} ELSE {})

ResetAllData ==
    /\ Settled
    /\ ls' = [k \in StorageKeys |->
                IF k \in {KeyTasks, KeyCategories, KeyProjects, KeySettings, KeyHistory}
                THEN removeItem(ls, k)[k] ELSE ls[k]]
    /\ tasks' = <<>>
    /\ categories' = DEFAULT_CATEGORIES
    /\ projects' = DEFAULT_PROJECTS
    /\ history' = EmptyHistory
    /\ dark' = FALSE
    /\ ApplyPresetUpdates(DeepWork.name, DeepWork.focusMin, DeepWork.breakMin)
    /\ unsaved' = unsaved \cup ResetAllWrites
    /\ UNCHANGED <<now, completedSessions, intervalRef, polls, rendered,
                   mounted, fixedVars>>

-----------------------------------------------------------------------------
(* Theme, tasks, categories and projects *)

\* what these handlers leave alone
timerVars == <<now, settings, isRunning, phase, remaining, completedSessions,
               history, targetRef, intervalRef, polls, rendered, mounted,
               fixedVars, ls>>

\* the theme button: setDark(v => !v)
ToggleDark ==
    /\ Settled
    /\ dark' = ~dark
    /\ unsaved' = unsaved \cup {KeyTheme}
    /\ UNCHANGED <<timerVars, tasks, categories, projects>>

\* crypto.randomUUID(): an id no task of the list has
NewTaskId(list) ==
    "task-" \o ToString(CHOOSE n \in 1..(Len(list) + 1) :
                            \A i \in 1..Len(list) : list[i].id # "task-" \o ToString(n))

\* addTask(title, category, project), title trimmed and not empty
addTask(title, category, project) ==
    /\ Settled
    /\ title # ""
    /\ Len(tasks) < MaxTasks
    /\ tasks' = <<[id        |-> NewTaskId(tasks),
                   title     |-> title,
                   category  |-> IF category = "" THEN "General" ELSE category,
                   project   |-> IF project = "" THEN "General" ELSE project,
                   done      |-> FALSE,
                   createdAt |-> now]>> \o tasks
    /\ unsaved' = unsaved \cup {KeyTasks}
    /\ UNCHANGED <<timerVars, dark, categories, projects>>

\* the TaskForm, its selects left at the first category and project
AddTask ==
    \E title \in TaskTitles :
        addTask(title,
                IF categories = <<>> THEN "General" ELSE categories[1],
                IF projects = <<>> THEN "General" ELSE projects[1])

\* arr.includes(x)
Includes(arr, x) == \E i \in 1..Len(arr) : arr[i] = x

deleteTask(id) ==
    /\ Settled
    /\ LET keep(t) == t.id # id
       IN  tasks' = SelectSeq(tasks, keep)
    /\ unsaved' = unsaved \cup {KeyTasks}
    /\ UNCHANGED <<timerVars, dark, categories, projects>>

\* the delete button of a task row
DeleteTask == \E i \in 1..Len(tasks) : deleteTask(tasks[i].id)

\* addCategory(name), name trimmed and not empty: a name already there leaves
\* the array itself in place, and nothing to persist
addCategory(name) ==
    /\ Settled
    /\ name # ""
    /\ IF Includes(categories, name)
       THEN UNCHANGED <<categories, unsaved>>
       ELSE /\ categories' = Append(categories, name)
            /\ unsaved' = unsaved \cup {KeyCategories}
    /\ UNCHANGED <<timerVars, dark, tasks, projects>>

removeCategory(name) ==
    /\ Settled
    /\ name # ""
    /\ LET keep(c) == c # name
       IN  categories' = SelectSeq(categories, keep)
    /\ unsaved' = unsaved \cup {KeyCategories}
    /\ UNCHANGED <<timerVars, dark, tasks, projects>>

addProject(name) ==
    /\ Settled
    /\ name # ""
    /\ IF Includes(projects, name)
       THEN UNCHANGED <<projects, unsaved>>
       ELSE /\ projects' = Append(projects, name)
            /\ unsaved' = unsaved \cup {KeyProjects}
    /\ UNCHANGED <<timerVars, dark, tasks, categories>>

removeProject(name) ==
    /\ Settled
    /\ name # ""
    /\ LET keep(c) == c # name
       IN  projects' = SelectSeq(projects, keep)
    /\ unsaved' = unsaved \cup {KeyProjects}
    /\ UNCHANGED <<timerVars, dark, tasks, categories>>

\* the two NameManagers: the add button takes the typed name, a remove button
\* belongs to a listed name
EditNames ==
    \E name \in NewNames :
        \/ addCategory(name)
        \/ Includes(categories, name) /\ removeCategory(name)
        \/ addProject(name)
        \/ Includes(projects, name) /\ removeProject(name)

-----------------------------------------------------------------------------
(* The interval callback *)

\* as tick, without `if (targetRef.current == null) return`: null - Date.now()
\* is negative, so msLeft is 0
tick_NoGuard ==
    /\ polls # {}
    /\ IF ~mounted
       THEN UNCHANGED remaining
       ELSE remaining' = IF targetRef = Null THEN 0 ELSE SecLeft(targetRef, now)
    /\ UNCHANGED <<now, settings, isRunning, phase, completedSessions, history,
                   targetRef, intervalRef, polls, rendered,
                   mounted, fixedVars, persistVars>>

tick ==
    /\ polls # {}
    /\ IF targetRef = Null \/ ~mounted
       THEN UNCHANGED remaining
       ELSE remaining' = SecLeft(targetRef, now)
    /\ UNCHANGED <<now, settings, isRunning, phase, completedSessions, history,
                   targetRef, intervalRef, polls, rendered,
                   mounted, fixedVars, persistVars>>

-----------------------------------------------------------------------------
(* Render and effects *)

\* dependency arrays of the three timer effects
ResyncDeps(d) == <<d.focusMin, d.breakMin, d.phase, d.isRunning>>
EngineDeps(d) == <<d.isRunning>>
SwitcherDeps(d) ==
    <<d.remaining, d.phase, d.autoStartNext, d.breakMin, d.focusMin, d.presetName>>

\* the re-sync effect passes its guard
ResyncApplies == ~isRunning /\ targetRef = Null

\* as CleanupClears, the interval left running
CleanupClears_Never(ref) == FALSE

\* cleanup of the timer engine: `if (intervalRef.current) window.clearInterval(...)`
CleanupClears(ref) == ref # Null

\* as BeepEscapes, without the try / catch
BeepEscapes_NoCatch(outcome) == outcome = "unavailable"

\* the beep's exception leaves the try / catch of the phase switcher
BeepEscapes(outcome) == FALSE

\* as SwitcherApplies, without the early return
SwitcherApplies_Always == TRUE

\* the phase switcher passes its early return `if (remaining > 0) return`
SwitcherApplies == ~(remaining > 0)

\* the next commit runs the body of the phase switcher (Expire)
SwitcherFires == SwitcherDeps(Deps) # SwitcherDeps(rendered) /\ SwitcherApplies

Commit ==
    /\ mounted
    /\ Dirty
    /\ LET resyncRuns   == ResyncDeps(Deps) # ResyncDeps(rendered)
           engineRuns   == EngineDeps(Deps) # EngineDeps(rendered)
           \* cleanup of the timer engine effect (installed when it last ran
           \* with isRunning true); cleanups run before the effect bodies
           cleanup == engineRuns /\ rendered.isRunning
           polls1  == IF cleanup /\ CleanupClears(intervalRef)
                      THEN polls \ {intervalRef} ELSE polls
           iref1   == IF cleanup THEN Null ELSE intervalRef
           \* re-sync effect
           rem1    == IF resyncRuns /\ ResyncApplies
                      THEN FullDuration(phase, settings) ELSE remaining
           \* timer engine effect: tick() at once, then setInterval(tick, 200)
           engine  == engineRuns /\ isRunning
           rem2    == IF engine /\ targetRef # Null THEN SecLeft(targetRef, now)
                      ELSE rem1
           id      == NewId(polls1)
           polls2  == IF engine THEN polls1 \cup {id} ELSE polls1
           iref2   == IF engine THEN id ELSE iref1
           \* phase switcher & history logging
           \* the body after the beep runs unless the beep's exception escapes
           fire    == SwitcherFires /\ ~BeepEscapes(audio)
           next    == OtherPhase(phase)
       IN  /\ polls' = polls2
           /\ intervalRef' = iref2
           /\ rendered' = Deps
           /\ IF fire
              THEN /\ history' = IF phase = "focus"
                                 THEN RecordCompletion(history, todayKey(now),
                                          settings.focusMin, settings.presetName, now)
                                 ELSE history
                   /\ completedSessions' = IF phase = "focus"
                                           THEN completedSessions + 1
                                           ELSE completedSessions
                   /\ phase' = next
                   /\ remaining' = FullDuration(next, settings)
                   /\ IF AutoStart
                      THEN /\ isRunning' = TRUE
                           /\ targetRef' = now + FullDuration(next, settings) * MsPerSec
                      ELSE /\ isRunning' = FALSE
                           /\ targetRef' = Null
              ELSE /\ remaining' = rem2
                   /\ UNCHANGED <<history, completedSessions, phase, isRunning,
                                  targetRef>>
           \* the persist effects run first, with the values of this render
           /\ ls' = PersistEffects(ls, unsaved)
           /\ unsaved' = IF fire /\ phase = "focus" THEN {KeyHistory} ELSE {}
    /\ UNCHANGED <<now, settings, mounted, fixedVars, dark, tasks, categories,
                   projects>>

-----------------------------------------------------------------------------
(* Teardown: React runs the cleanups of the effects *)

\* as Unmount, without the cleanup of the timer engine
Unmount_NoCleanup ==
    /\ Settled
    /\ mounted' = FALSE
    /\ UNCHANGED <<now, settings, isRunning, phase, remaining, completedSessions,
                   history, targetRef, intervalRef, polls, rendered, fixedVars, persistVars>>

Unmount ==
    /\ Settled
    /\ mounted' = FALSE
    /\ LET cleanup == rendered.isRunning
       IN  /\ polls' = IF cleanup /\ CleanupClears(intervalRef)
                       THEN polls \ {intervalRef} ELSE polls
           /\ intervalRef' = IF cleanup THEN Null ELSE intervalRef
    /\ UNCHANGED <<now, settings, isRunning, phase, remaining, completedSessions,
                   history, targetRef, rendered, fixedVars, persistVars>>

-----------------------------------------------------------------------------

Next ==
    \/ Advance
    \/ ApplyBuiltin
    \/ ApplyCustom
    \/ ResetAllData
    \/ ToggleAutoStart
    \/ start
    \/ pause
    \/ reset
    \/ skip
    \/ tick
    \/ Commit
    \/ Unmount

Spec == Init /\ [][Next]_vars

(* The persisted slices: the handlers that write one of them, and of the
   timer what it takes to change the settings and to record a session *)

\* the wall clock, observed StoreObs times on the mark
AdvanceStore ==
    /\ Advance
    /\ now' <= Epoch0 + StoreObs * ObserveEveryMin * SecPerMin * MsPerSec

NextStore ==
    \/ ToggleDark
    \/ AddTask
    \/ DeleteTask
    \/ EditNames
    \/ ApplyCustom
    \/ ResetAllData
    \/ AdvanceStore
    \/ start
    \/ tick
    \/ Commit

InitStore == Init /\ audio = "ok"

SpecStore == InitStore /\ [][NextStore]_vars

(* The unattended timer: durations are chosen while the timer is at rest,
   Start is pressed, and from then on only the clock, the interval callback
   and React act. The callback of a live setInterval keeps being called, a
   pending render is always committed, and time passes. *)
\* the last instant the clock is observed at
Horizon == CHOOSE t \in Instants : \A u \in Instants : u <= t

NextLive ==
    \/ (~isRunning /\ ApplyCustom)
    \/ start
    \/ Advance
    \/ tick
    \/ Commit

Fairness == WF_vars(Advance) /\ WF_vars(tick) /\ WF_vars(Commit)

SpecLive == Init /\ [][NextLive]_vars /\ Fairness

-----------------------------------------------------------------------------
(* The timer engine of the earlier versions (src/unnamed/part_000 and
   part_001): no deadline; every callback of a 500 ms interval subtracts the
   rounded number of seconds since the callback before it.  `now` stands for
   performance.now() here. *)

TickEveryMs == 500

\* Math.round(a / b) for a >= 0 and b > 0: halves round up
Round(a, b) == (2 * a + b) \div (2 * b)

\* when the next callback of the live interval is due
Due == run.at + (run.fired + 1) * TickEveryMs

\* `const start = () => setIsRunning(true)`
OldStart ==
    /\ Settled
    /\ isRunning' = TRUE
    /\ UNCHANGED <<now, settings, phase, remaining, completedSessions, history,
                   targetRef, intervalRef, polls, rendered, mounted, fixedVars,
                   persistVars>>

\* `const pause = () => setIsRunning(false)`
OldPause ==
    /\ Settled
    /\ isRunning' = FALSE
    /\ UNCHANGED <<now, settings, phase, remaining, completedSessions, history,
                   targetRef, intervalRef, polls, rendered, mounted, fixedVars,
                   persistVars>>

\* the last instant the earlier versions' clock is observed at
OldHorizon == Epoch0 + MaxOldTicks * TickEveryMs + LateMs

\* time passes until the next callback is due, or LateMs longer
OldAdvance ==
    /\ polls # {} /\ run.at # Null
    /\ now < Due
    /\ \E late \in Fracs : now' = Due + late /\ now' <= OldHorizon
    /\ UNCHANGED <<settings, isRunning, phase, remaining, completedSessions, history,
                   targetRef, intervalRef, polls, rendered, mounted, fixedVars,
                   persistVars>>

\* the interval callback of the earlier versions
OldTick ==
    /\ polls # {} /\ run.at # Null
    /\ now >= Due
    /\ LET last == IF lastTickRef = Null THEN now ELSE lastTickRef
           dt   == Max(0, Round(now - last, MsPerSec))
       IN  /\ lastTickRef' = now
           /\ remaining' = Max(0, remaining - dt)
    /\ run' = [run EXCEPT !.fired = @ + 1, !.onSchedule = @ /\ now = Due]
    /\ UNCHANGED <<now, settings, isRunning, phase, completedSessions, history,
                   targetRef, intervalRef, polls, rendered, mounted, audio, call,
                   persistVars>>

\* one render of the earlier versions and its effects: persist, re-sync,
\* timer engine (cleanup first), phase switcher
OldCommit ==
    /\ mounted
    /\ Dirty
    /\ LET resyncRuns == ResyncDeps(Deps) # ResyncDeps(rendered)
           engineRuns == EngineDeps(Deps) # EngineDeps(rendered)
           cleanup == engineRuns /\ rendered.isRunning
           polls1  == IF cleanup /\ CleanupClears(intervalRef)
                      THEN polls \ {intervalRef} ELSE polls
           iref1   == IF cleanup THEN Null ELSE intervalRef
           \* `if (!isRunning) setRemaining(...)`
           rem1    == IF resyncRuns /\ ~isRunning
                      THEN FullDuration(phase, settings) ELSE remaining
           \* `window.setInterval(tick, 500)`, no callback at once
           engine  == engineRuns /\ isRunning
           id      == NewId(polls1)
           fire    == SwitcherFires /\ ~BeepEscapes(audio)
           next    == OtherPhase(phase)
       IN  /\ polls' = IF engine THEN polls1 \cup {id} ELSE polls1
           /\ intervalRef' = IF engine THEN id ELSE iref1
           /\ lastTickRef' = IF cleanup THEN Null ELSE lastTickRef
           /\ rendered' = Deps
           /\ IF fire
              THEN /\ history' = IF phase = "focus"
                                 THEN RecordCompletion(history, todayKey(now),
                                          settings.focusMin, settings.presetName, now)
                                 ELSE history
                   /\ completedSessions' = IF phase = "focus"
                                           THEN completedSessions + 1
                                           ELSE completedSessions
                   /\ phase' = next
                   /\ remaining' = FullDuration(next, settings)
                   /\ isRunning' = AutoStart
              ELSE /\ remaining' = rem1
                   /\ UNCHANGED <<history, completedSessions, phase, isRunning>>
           /\ run' = IF engine
                     THEN [at |-> now, fired |-> 0, from |-> remaining',
                           onSchedule |-> TRUE]
                     ELSE IF cleanup THEN NoRun ELSE run
           /\ ls' = PersistEffects(ls, unsaved)
           /\ unsaved' = IF fire /\ phase = "focus" THEN {KeyHistory} ELSE {}
    /\ UNCHANGED <<now, settings, targetRef, mounted, audio, call, dark, tasks,
                   categories, projects>>

NextOld ==
    \/ OldStart
    \/ OldPause
    \/ OldAdvance
    \/ OldTick
    \/ OldCommit

InitOld == Init /\ now = Epoch0 /\ audio = "ok"

SpecOld == InitOld /\ [][NextOld]_vars

-----------------------------------------------------------------------------
(* The helper functions loadLS, saveLS and todayKey on their own: an input is
   drawn at the start and one call is made on it *)

\* values of the three persisted types
SettingsValues ==
    {SettingsJS(defaultSettings),
     SettingsJS([presetName |-> "Custom", focusMin |-> MinCustomFocus,
                 breakMin |-> MinCustomBreak, autoStartNext |-> FALSE])}

Task1 == [id |-> "task-1", title |-> "Write report", category |-> "General",
          project |-> "General", done |-> FALSE, createdAt |-> Epoch0]
Task2 == [id |-> "task-2", title |-> "Review", category |-> "Docs",
          project |-> "MindMesh", done |-> TRUE, createdAt |-> Epoch0 + LateMs]

TaskListValues == {TasksJS(<<>>), TasksJS(<<Task1>>), TasksJS(<<Task2, Task1>>)}

History1 ==
    RecordCompletion(EmptyHistory, todayKey(Epoch0), MinCustomFocus, "Custom", Epoch0)
History2 ==
    RecordCompletion(History1, todayKey(Epoch0 + LateMs), DeepWork.focusMin,
                     DeepWork.name, Epoch0 + LateMs)
History3 ==
    RecordCompletion(History2, todayKey(Epoch0 + MsPerDay), Flow.focusMin, Flow.name,
                     Epoch0 + MsPerDay)

HistoryValues ==
    {HistoryJS(EmptyHistory), HistoryJS(History1), HistoryJS(History2),
     HistoryJS(History3)}

SliceValues == SettingsValues \cup TaskListValues \cup HistoryValues

\* further values a stored text can stand for
OtherValues ==
    {JNull, JNum(0), JStr(""), JBool(FALSE), JBool(TRUE), NamesJS(DEFAULT_PROJECTS)}

\* the typed fallbacks
Fallbacks == {JBool(FALSE), JArr(<<>>), SettingsJS(defaultSettings)}

\* texts that are JSON: what JSON.stringify writes for a value, and one with
\* a repeated key, each with the value it stands for
JSONTexts ==
    {[text |-> JSONStringify(v), value |-> v] : v \in SliceValues \cup OtherValues}
    \cup {[text  |-> <<P("{"), StringTok("a"), P(":"), NumberTok(1), P(","),
                       StringTok("a"), P(":"), NumberTok(2), P("}")>>,
            value |-> JObj(<<Member("a", JNum(2))>>)]}

\* texts that are not JSON: a text cut short (the empty text too), a bare
\* word, a trailing comma, two values, a member without its colon, a stray
\* bracket
CorruptTexts ==
    (UNION {{SubSeq(jt.text, 1, n) : n \in 0..(Len(jt.text) - 1)} : jt \in JSONTexts}
       \ {jt.text : jt \in JSONTexts})
    \cup {<<WordTok("undefined")>>,
           <<P("["), NumberTok(1), P(","), P("]")>>,
           <<NumberTok(1), NumberTok(2)>>,
           <<P("{"), StringTok("a"), NumberTok(1), P("}")>>,
           <<P("}")>>}

LoadInputs ==
    {FnCall("load?", key, Absent, FALSE, JNull, fb, 0, 0, JNull) :
        key \in StorageKeys, fb \in Fallbacks}
    \cup {FnCall("load?", KeySettings, Stored(jt.text), TRUE, jt.value, fb, 0, 0, JNull) :
            jt \in JSONTexts, fb \in Fallbacks}
    \cup {FnCall("load?", KeySettings, Stored(text), FALSE, JNull, fb, 0, 0, JNull) :
            text \in CorruptTexts, fb \in Fallbacks}

RoundTripInputs ==
    {FnCall("save-load?", KeySettings, Absent, TRUE, v, fb, 0, 0, JNull) :
        v \in SliceValues, fb \in Fallbacks}

\* offsets of local time from UTC, in minutes
UtcOffsets == {-60, 0, 60}

DateInputs ==
    {FnCall("todayKey?", KeySettings, Absent, FALSE, JNull, JNull, t, offset, JNull) :
        t \in Instants, offset \in UtcOffsets}

\* time zones: UTC, one hour east of UTC all year, and one hour east of UTC
\* until 1970-01-01T01:00Z and two hours east from then on
NoZone == [before |-> 0, after |-> 0, at |-> 0]
Zones ==
    {NoZone,
     [before |-> 60, after |-> 60, at |-> 0],
     [before |-> 60, after |-> 120, at |-> 60 * SecPerMin * MsPerSec]}

\* the arguments of a lastNDays call, and its result
DaysArgs(n, z, h) == [t |-> "args", v |-> [n |-> n, zone |-> z, history |-> h]]
DaysResult(r) == [t |-> "days", v |-> r]

DaysInputs ==
    {FnCall("lastNDays?", KeyHistory, Absent, FALSE, DaysArgs(n, z, h), JNull, t, 0, JNull) :
        n \in 1..MaxDays, z \in Zones, h \in {EmptyHistory, History3}, t \in Instants}

\* the countdowns the clock face shows with two minute digits
ClockInputs ==
    {FnCall("secondsToClock?", KeySettings, Absent, FALSE, JNull, JNull, sec, 0, JNull) :
        sec \in 0..(100 * SecPerMin - 1)}

\* the variables of the component
appVars == <<now, settings, isRunning, phase, remaining, completedSessions, history,
             targetRef, intervalRef, polls, rendered, mounted, audio, persistVars,
             lastTickRef, run>>

CallLoadLS ==
    /\ call.op = "load?"
    /\ call' = [call EXCEPT
                  !.op = "loadLS",
                  !.result = loadLS([EmptyStorage EXCEPT ![call.key] = call.entry],
                                    call.key, call.fallback)]
    /\ UNCHANGED appVars

CallSaveLoad ==
    /\ call.op = "save-load?"
    /\ LET store == saveLS(EmptyStorage, call.key, call.value)
       IN  call' = [call EXCEPT
                      !.op = "saveLS-loadLS",
                      !.entry = store[call.key],
                      !.result = loadLS(store, call.key, call.fallback)]
    /\ UNCHANGED appVars

CallTodayKey ==
    /\ call.op = "todayKey?"
    /\ call' = [call EXCEPT !.op = "todayKey", !.result = JStr(todayKey(call.t))]
    /\ UNCHANGED appVars

CallSecondsToClock ==
    /\ call.op = "secondsToClock?"
    /\ call' = [call EXCEPT !.op = "secondsToClock",
                            !.result = JStr(secondsToClock(call.t))]
    /\ UNCHANGED appVars

CallLastNDays ==
    /\ call.op = "lastNDays?"
    /\ LET a == call.value.v
       IN  call' = [call EXCEPT !.op = "lastNDays",
                                !.result = DaysResult(lastNDays(a.n, call.t, a.zone, a.history))]
    /\ UNCHANGED appVars

NextFn ==
    \/ CallLastNDays
    \/ CallLoadLS
    \/ CallSaveLoad
    \/ CallTodayKey
    \/ CallSecondsToClock

InitFn ==
    /\ InitApp
    /\ now = Epoch0
    /\ audio = "ok"
    /\ call \in LoadInputs \cup RoundTripInputs \cup DateInputs \cup ClockInputs \cup DaysInputs

SpecFn == InitFn /\ [][NextFn]_vars

TypeOK ==
    /\ dark \in BOOLEAN
    /\ Len(tasks) <= MaxTasks
    /\ unsaved \subseteq StorageKeys
    /\ DOMAIN ls = StorageKeys
    /\ mounted \in BOOLEAN
    /\ audio \in AudioOutcomes
    /\ now \in Nat
    /\ lastTickRef \in Nat \cup {Null}
    /\ run.at \in Nat \cup {Null} /\ run.fired \in 0..MaxOldTicks
    /\ isRunning \in BOOLEAN
    /\ phase \in {"focus", "break"}
    /\ remaining \in Nat
    /\ completedSessions \in Nat
    /\ targetRef \in Nat \cup {Null}
    /\ intervalRef \in Nat \cup {Null}

-----------------------------------------------------------------------------
(* Observations on the history log *)

\* the (date-key, position) pairs of the SessionRecords of h
Records(h) == UNION {{<<k, i>> : i \in 1..Len(h[k].sessions)} : k \in DOMAIN h}

NumRecords(h) == Cardinality(Records(h))

RECURSIVE SumMinutes(_)
SumMinutes(sessions) ==
    IF sessions = <<>> THEN 0
    ELSE sessions[1].minutes + SumMinutes(Tail(sessions))

\* g is h with exactly one SessionRecord appended to the day `key`
AppendsOne(h, g, key) ==
    /\ DOMAIN g = DOMAIN h \cup {key}
    /\ \A k \in DOMAIN h \ {key} : g[k] = h[k]
    /\ Len(g[key].sessions) = Len(DayOf(h, key).sessions) + 1
    /\ SubSeq(g[key].sessions, 1, Len(DayOf(h, key).sessions)) = DayOf(h, key).sessions

\* the clock is paused at the full duration of its phase
AtRest == ~isRunning /\ targetRef = Null /\ remaining = FullDuration(phase, settings)

-----------------------------------------------------------------------------
(* C1: once the deadline of a running phase has passed, a Tick sets remaining
   to 0 however late it runs; remaining = 0 always has the Expire transition
   pending; the transition fires once: it appends exactly one SessionRecord
   (and counts one completed session) when the phase was Focus and none when
   it was Break, flips the phase, and leaves remaining
   positive, a deadline (if any) in the future and no second firing pending;
   no other step adds a SessionRecord. *)
C1_TickReachesZero ==
    (tick /\ targetRef # Null /\ now >= targetRef) => remaining' = 0

C1_FiresOnce ==
    (Commit /\ SwitcherFires) =>
        /\ NumRecords(history') =
               NumRecords(history) + (IF phase = "focus" THEN 1 ELSE 0)
        /\ completedSessions' =
               completedSessions + (IF phase = "focus" THEN 1 ELSE 0)
        /\ phase' = OtherPhase(phase)
        /\ remaining' > 0
        /\ targetRef' = Null \/ targetRef' > now
        /\ ~SwitcherFires'

C1_OnlyExpireLogs ==
    NumRecords(history') > NumRecords(history) =>
        Commit /\ SwitcherFires /\ phase = "focus"

C1_ExpireExactlyOnce ==
    /\ [](remaining = 0 => Dirty /\ SwitcherFires)
    /\ [][C1_TickReachesZero]_vars
    /\ [][C1_FiresOnce]_vars
    /\ [][C1_OnlyExpireLogs]_vars

\* a Focus phase has expired once, the Break that followed is running, and a
\* later Tick has run with less than a second of the Break left
C1_Witness ==
    /\ phase = "break" /\ isRunning /\ Settled
    /\ NumRecords(history) = 1 /\ completedSessions = 1
    /\ remaining = 1

-----------------------------------------------------------------------------
(* C2: Pause sets remaining to ceil(max(0, deadline - now) / 1000), and the
   commit that follows the stopping of the clock leaves that value alone (it
   is the remaining the next Start arms the deadline with). *)
C2_PauseSetsRemaining ==
    (pause /\ isRunning /\ targetRef # Null) =>
        remaining' = SecLeft(targetRef, now)

C2_CommitKeepsFrozen ==
    (Commit /\ rendered.isRunning /\ ~isRunning /\ remaining > 0) =>
        remaining' = remaining

C2_PauseFreezes ==
    /\ [][C2_PauseSetsRemaining]_vars
    /\ [][C2_CommitKeepsFrozen]_vars

-----------------------------------------------------------------------------
(* C3: Reset yields phase Focus, remaining = focusMin * 60, not running, no
   deadline and a completed-session counter of 0, from any state, and the
   commit that follows keeps all of it. *)
AfterReset ==
    /\ phase = "focus"
    /\ remaining = settings.focusMin * SecPerMin
    /\ isRunning = FALSE
    /\ targetRef = Null
    /\ completedSessions = 0

C3_ResetStep == reset => AfterReset'

C3_ResetSettles == (Commit /\ AfterReset) => AfterReset'

C3_Reset == [][C3_ResetStep]_vars /\ [][C3_ResetSettles]_vars

\* Reset has just been pressed while a Break was running after a completed
\* Focus session
C3_Witness ==
    /\ AfterReset
    /\ rendered.phase = "break" /\ rendered.isRunning
    /\ NumRecords(history) >= 1

-----------------------------------------------------------------------------
(* C4: every date-key of the history log has count = length(sessions) and
   minutes = the sum of the minutes of its sessions. *)
C4_HistoryDayConsistent ==
    \A k \in DOMAIN history :
        /\ history[k].count = Len(history[k].sessions)
        /\ history[k].minutes = SumMinutes(history[k].sessions)

\* a day with two sessions
C4_Witness ==
    \E k \in DOMAIN history : Len(history[k].sessions) >= 2

-----------------------------------------------------------------------------
(* C5: Skip during a Focus phase leaves the history log as it was, flips the
   phase to Break and sets remaining to the full break duration; the commit
   of a Break phase never records a completion either. *)
C5_SkipStep ==
    (skip /\ phase = "focus") =>
        /\ history' = history
        /\ phase' = "break"
        /\ remaining' = settings.breakMin * SecPerMin

C5_BreakCommitLogsNothing == (Commit /\ phase = "break") => history' = history

C5_SkipNeverLogs == [][C5_SkipStep]_vars /\ [][C5_BreakCommitLogsNothing]_vars

\* Skip has just been pressed during a running Focus phase that had counted
\* down below its full duration
C5_Witness ==
    /\ phase = "break" /\ rendered.phase = "focus"
    /\ rendered.isRunning
    /\ rendered.remaining > 0
    /\ rendered.remaining < rendered.focusMin * SecPerMin

-----------------------------------------------------------------------------
(* C6: with autoStartNext, the expiry of a running Focus phase yields phase
   Break, remaining = breakMin * 60, running, a deadline of now + the break
   duration, and exactly one more record under today's key, with minutes =
   focusMin and preset = presetName (count and minutes of the day updated);
   the expiry of a running Break phase yields phase Focus, remaining =
   focusMin * 60, running, and the same history log. *)
C6_Expire ==
    (Commit /\ SwitcherFires /\ isRunning /\ settings.autoStartNext) =>
        IF phase = "focus"
        THEN /\ phase' = "break"
             /\ remaining' = settings.breakMin * SecPerMin
             /\ isRunning'
             /\ targetRef' = now + settings.breakMin * SecPerMin * MsPerSec
             /\ AppendsOne(history, history', todayKey(now))
             /\ LET day  == DayOf(history, todayKey(now))
                    day2 == history'[todayKey(now)]
                    rec  == day2.sessions[Len(day2.sessions)]
                IN  /\ rec.minutes = settings.focusMin
                    /\ rec.preset = settings.presetName
                    /\ day2.count = day.count + 1
                    /\ day2.minutes = day.minutes + settings.focusMin
        ELSE /\ phase' = "focus"
             /\ remaining' = settings.focusMin * SecPerMin
             /\ isRunning'
             /\ targetRef' = now + settings.focusMin * SecPerMin * MsPerSec
             /\ history' = history

C6_AutoStartExpire == [][C6_Expire]_vars

\* with autoStartNext, a Focus phase has expired and the Break that followed
\* has just expired too
C6_Witness ==
    /\ settings.autoStartNext
    /\ phase = "focus" /\ isRunning
    /\ rendered.phase = "break" /\ rendered.remaining = 0 /\ rendered.isRunning
    /\ NumRecords(history) >= 1

-----------------------------------------------------------------------------
(* C7: without autoStartNext, the expiry of a running phase flips the phase,
   sets remaining to the full duration of the new phase and pauses the clock
   with no deadline; from then on remaining and phase change only by Start,
   Skip, Reset or the application of a preset (Reset All Data applies one). *)
C7_Expire ==
    (Commit /\ SwitcherFires /\ isRunning /\ ~settings.autoStartNext) =>
        /\ phase' = OtherPhase(phase)
        /\ remaining' = FullDuration(phase', settings)
        /\ ~isRunning'
        /\ targetRef' = Null

C7_StaysAtRest ==
    (AtRest /\ ~(start \/ skip \/ reset \/ ApplyBuiltin \/ ApplyCustom \/ ResetAllData)) =>
        /\ remaining' = remaining
        /\ phase' = phase

C7_ManualExpire == [][C7_Expire]_vars /\ [][C7_StaysAtRest]_vars

\* without autoStartNext, a running Focus phase has just expired
C7_Witness ==
    /\ ~settings.autoStartNext
    /\ phase = "break" /\ AtRest
    /\ rendered.phase = "focus" /\ rendered.remaining = 0 /\ rendered.isRunning

-----------------------------------------------------------------------------
(* C8: a Tick with a stored deadline sets remaining to the least number of
   whole seconds that covers the time left to the deadline, whatever the
   earlier Ticks did: 0 exactly when now >= deadline, at least 1 otherwise;
   the deadline itself is left alone. *)
C8_Tick ==
    (tick /\ targetRef # Null) =>
        /\ targetRef' = targetRef
        /\ remaining' >= 0
        /\ (remaining' = 0) <=> (now >= targetRef)
        /\ now < targetRef =>
              /\ remaining' * MsPerSec >= targetRef - now
              /\ (remaining' - 1) * MsPerSec < targetRef - now

C8_TickFromDeadline == [][C8_Tick]_vars

\* a Tick has run with less than a second left to the deadline
C8_Witness ==
    /\ isRunning /\ targetRef # Null
    /\ now < targetRef /\ targetRef - now < MsPerSec
    /\ remaining = 1 /\ rendered.remaining > 1

-----------------------------------------------------------------------------
(* C9 as stated: the history log changes only when the expiry of a Focus
   phase appends one record to today's day. *)
C9_OnlyAppend ==
    history' # history =>
        /\ Commit /\ SwitcherFires /\ phase = "focus"
        /\ AppendsOne(history, history', todayKey(now))

C9_AppendOnly == [][C9_OnlyAppend]_vars

(* C9 amended: the history log changes only when the expiry of a Focus phase
   appends one record to today's day, or when Reset All Data empties it. *)
C9_AppendOrClear ==
    history' # history =>
        \/ /\ Commit /\ SwitcherFires /\ phase = "focus"
           /\ AppendsOne(history, history', todayKey(now))
        \/ /\ ResetAllData
           /\ history' = EmptyHistory

C9_AppendOnlyUntilResetAll == [][C9_AppendOrClear]_vars

\* Reset All Data has emptied a log that held a completed session, and a
\* later expiry of a Focus phase has appended a record to the emptied log
C9_Witness ==
    /\ NumRecords(history) >= 1
    /\ completedSessions > NumRecords(history)

-----------------------------------------------------------------------------
(* C10 as stated: applying a preset while the clock is running leaves phase,
   running flag, deadline and remaining unchanged. *)
C10_Untouched ==
    ((ApplyBuiltin \/ ApplyCustom) /\ isRunning) =>
        UNCHANGED <<phase, isRunning, targetRef, remaining>>

C10_PresetKeepsCountdown == [][C10_Untouched]_vars

(* C10 amended: applying a preset while the clock is running stops the
   countdown: phase Focus, not running, no deadline, remaining = the new
   focusMin * 60, and the commit that follows keeps all of it. *)
AfterPreset ==
    /\ phase = "focus"
    /\ ~isRunning
    /\ targetRef = Null
    /\ remaining = settings.focusMin * SecPerMin

C10_Stops == ((ApplyBuiltin \/ ApplyCustom) /\ isRunning) => AfterPreset'

C10_StopSettles ==
    (Commit /\ AfterPreset /\ rendered.isRunning) => (AfterPreset' /\ polls' = {})

C10_PresetStopsCountdown == [][C10_Stops]_vars /\ [][C10_StopSettles]_vars

\* a preset with other durations has just been applied during a running Break
C10_Witness ==
    /\ AfterPreset
    /\ rendered.isRunning /\ rendered.phase = "break"
    /\ rendered.focusMin # settings.focusMin

-----------------------------------------------------------------------------
(* C11 as stated: changing the durations while paused keeps the current phase
   and sets remaining to the new full duration of that phase (a paused Break
   stays a Break). *)
C11_KeepsPhase ==
    ((ApplyBuiltin \/ ApplyCustom) /\ ~isRunning) =>
        /\ phase' = phase
        /\ remaining' = FullDuration(phase, settings')

C11_PausedResyncKeepsPhase == [][C11_KeepsPhase]_vars

(* C11 amended: the durations change only by applying a preset, and applying a
   preset while paused switches to Focus whatever the phase was: phase Focus,
   not running, no deadline, remaining = the new focusMin * 60, and the commit
   that follows (the re-sync effect) keeps all of it. *)
C11_ToFocus == ((ApplyBuiltin \/ ApplyCustom) /\ ~isRunning) => AfterPreset'

C11_ResyncKeeps ==
    (Commit /\ AfterPreset /\ ~rendered.isRunning) => AfterPreset'

C11_PausedPresetResyncsFocus == [][C11_ToFocus]_vars /\ [][C11_ResyncKeeps]_vars

\* a preset with another break duration has just been applied during a paused
\* Break
C11_Witness ==
    /\ AfterPreset
    /\ ~rendered.isRunning /\ rendered.phase = "break"
    /\ rendered.breakMin # settings.breakMin

-----------------------------------------------------------------------------
(* C12: in every reachable state at most one recurring poll is active, and
   once the effects have settled a poll is active exactly when the timer is
   running. *)
C12_OnePoll ==
    /\ Cardinality(polls) <= 1
    /\ Settled => (polls # {} <=> isRunning)

\* a Break that started by itself is counting down under the one poll
C12_Witness ==
    /\ Settled /\ isRunning /\ phase = "break"
    /\ polls = {intervalRef}
    /\ remaining < FullDuration("break", settings)

-----------------------------------------------------------------------------
(* C13: once the effects have settled with the timer not running (after Pause,
   Reset, a phase switch without auto-start, a preset), and after teardown, no
   poll remains; a Tick that arrives while the timer is not running or the
   component is gone changes neither remaining, phase, history nor the
   completed counter. *)
C13_NoPoll ==
    /\ (Settled /\ ~isRunning) => polls = {}
    /\ ~mounted => polls = {}

C13_LateTick ==
    (tick /\ (~isRunning \/ ~mounted)) =>
        UNCHANGED <<remaining, phase, history, completedSessions>>

C13_PollStopped == []C13_NoPoll /\ [][C13_LateTick]_vars

\* the component was torn down while the timer was running
C13_Witness == ~mounted /\ isRunning /\ targetRef # Null /\ polls = {}

-----------------------------------------------------------------------------
(* C14: the commit that runs the phase switcher at remaining = 0 produces the
   same phase, remaining, running flag, deadline, history and completed
   counter whether the audio alert plays or throws: each is a function of the
   state before, not of the audio outcome. *)
C14_Outcome ==
    (Commit /\ SwitcherFires) =>
        /\ phase' = OtherPhase(phase)
        /\ remaining' = FullDuration(OtherPhase(phase), settings)
        /\ isRunning' = settings.autoStartNext
        /\ targetRef' = IF settings.autoStartNext
                        THEN now + FullDuration(OtherPhase(phase), settings) * MsPerSec
                        ELSE Null
        /\ history' = IF phase = "focus"
                      THEN RecordCompletion(history, todayKey(now), settings.focusMin,
                                            settings.presetName, now)
                      ELSE history
        /\ completedSessions' = completedSessions + (IF phase = "focus" THEN 1 ELSE 0)

C14_AlertIrrelevant == [][C14_Outcome]_vars

\* a Focus phase has expired and was recorded although the alert threw
C14_Witness ==
    /\ audio = "unavailable"
    /\ phase = "break" /\ rendered.phase = "focus" /\ rendered.remaining = 0
    /\ NumRecords(history) >= 1

-----------------------------------------------------------------------------
(* C15: remaining is never negative; and while the timer keeps running within
   one phase, a tick, a commit or the passing of time never increases it. *)
C15_Step ==
    ((tick \/ Commit \/ Advance) /\ isRunning /\ isRunning' /\ phase' = phase) =>
        remaining' <= remaining

C15_Monotone == [](remaining >= 0) /\ [][C15_Step]_vars

\* a tick that came late, past the deadline, has left remaining at 0
C15_Witness ==
    /\ isRunning /\ remaining = 0
    /\ targetRef # Null /\ now > targetRef

-----------------------------------------------------------------------------
(* C16: Skip follows autoStartNext as a natural Expire does: after either, the
   phase is flipped, remaining is the full duration of the new phase, the timer
   runs exactly when autoStartNext is on, and the deadline is now + that full
   duration when it runs and absent when it does not. *)
C16_Step ==
    (skip \/ (Commit /\ SwitcherFires)) =>
        /\ phase' # phase
        /\ remaining' = FullDuration(phase', settings)
        /\ isRunning' = settings.autoStartNext
        /\ targetRef' = IF isRunning' THEN now + remaining' * MsPerSec ELSE Null

C16_SkipHonorsAutoStart == [][C16_Step]_vars

\* Skip has just been pressed on a paused timer with auto-start on
C16_Witness ==
    /\ phase # rendered.phase /\ rendered.remaining > 0 /\ ~rendered.isRunning
    /\ isRunning /\ targetRef = now + FullDuration(phase, settings) * MsPerSec

-----------------------------------------------------------------------------
(* C17: whenever the effects have settled, each of the six namespaced keys is
   present in localStorage and its text parses to the value of the in-memory
   slice; so too after Reset All Data, which removes five of the keys first. *)
C17_Persisted ==
    Settled =>
        \A k \in StorageKeys :
            /\ ls[k].present
            /\ JSONParse(ls[k].text).ok
            /\ JSONParse(ls[k].text).v = SliceJS(k)

\* Reset All Data has emptied a task list and a history, and the keys it
\* removed are written again
C17_Witness ==
    /\ Settled
    /\ tasks = <<>> /\ history = EmptyHistory /\ completedSessions >= 1
    /\ ls[KeyHistory] = Stored(<<P("{"), P("}")>>)
    /\ ls[KeyTasks] = Stored(<<P("["), P("]")>>)
    /\ dark /\ Len(categories) > Len(DEFAULT_CATEGORIES)

-----------------------------------------------------------------------------
(* C18: loadLS never throws; it returns the fallback when the key is absent
   and when the stored text is not JSON, and the value the text stands for
   when it is JSON. *)
C18_LoadNeverFails ==
    call.op = "loadLS" =>
        /\ call.result # Thrown
        /\ ~call.entry.present => call.result = call.fallback
        /\ (call.entry.present /\ ~call.valid) => call.result = call.fallback
        /\ (call.entry.present /\ call.valid) => call.result = call.value

\* a text cut short in the middle of an object has been loaded as the fallback
C18_Witness ==
    /\ call.op = "loadLS"
    /\ call.entry.present /\ ~call.valid /\ Len(call.entry.text) > 1
    /\ call.entry.text[1] = P("{")
    /\ call.result = call.fallback

-----------------------------------------------------------------------------
(* C19: saving a Settings, task list or history value and loading the key
   again returns that value, whatever the fallback. *)
C19_RoundTrip ==
    call.op = "saveLS-loadLS" => call.result = call.value

\* a history of two days went through, with a fallback that differs from it
C19_Witness ==
    /\ call.op = "saveLS-loadLS"
    /\ call.value = HistoryJS(History3)
    /\ call.fallback # call.value
    /\ call.result = call.value

-----------------------------------------------------------------------------
\* the calendar date of the instant ms where local time is UTC + offset minutes
LocalDate(ms, offset) == ISODate(ms + offset * SecPerMin * MsPerSec)

(* C20 as stated: the date-key is the calendar date of the instant in the
   user's local time zone. *)
C20_LocalDateKey ==
    call.op = "todayKey" => call.result = JStr(LocalDate(call.t, call.offset))

-----------------------------------------------------------------------------
(* C22: durations are clamped where they are accepted: in every state the
   focus duration is at least 5 minutes and the break duration at least
   1 minute, whatever numbers were typed into the custom preset. *)
C22_DurationsClamped ==
    /\ settings.focusMin >= MinCustomFocus
    /\ settings.breakMin >= MinCustomBreak

\* a custom preset typed as 3 / 0 has been applied and both floors acted
C22_Witness ==
    /\ settings.presetName = "Custom"
    /\ settings.focusMin = MinCustomFocus /\ settings.focusMin \notin CustomFocusInputs
    /\ settings.breakMin = MinCustomBreak /\ settings.breakMin \notin CustomBreakInputs
    /\ remaining = MinCustomFocus * SecPerMin

-----------------------------------------------------------------------------
(* C23: Start while paused sets running and arms the deadline at
   now + remaining * 1000 ms, leaving remaining and the phase as they are;
   Start while running changes nothing. *)
C23_StartArms ==
    [][start =>
        IF isRunning
        THEN UNCHANGED vars
        ELSE /\ isRunning'
             /\ targetRef' = now + remaining * MsPerSec
             /\ remaining' = remaining
             /\ phase' = phase]_vars

\* a break that did not start by itself has just been started, later than
\* the session was
C23_Witness ==
    /\ isRunning /\ ~rendered.isRunning
    /\ phase = "break" /\ completedSessions >= 1 /\ ~settings.autoStartNext
    /\ remaining > 0 /\ now > Epoch0
    /\ targetRef = now + remaining * MsPerSec

-----------------------------------------------------------------------------
(* C25: in every state, a deadline is armed exactly when the timer is
   running: targetRef is not null if and only if isRunning is true. *)
C25_DeadlineIffRunning == (targetRef # Null) <=> isRunning

\* a break has started by itself: the phase switcher armed its deadline and
\* left the timer running
C25_Witness ==
    /\ isRunning /\ phase = "break" /\ completedSessions >= 1
    /\ targetRef = now + settings.breakMin * SecPerMin * MsPerSec

-----------------------------------------------------------------------------
(* C26: an interval callback that runs after the deadline was discarded (by
   Pause, Reset, a preset change or a phase switch without auto-start) and
   before the poll is cancelled changes neither remaining, the phase, the
   history nor the completed counter. *)
C26_StaleTick ==
    [][(tick /\ targetRef = Null) =>
        UNCHANGED <<remaining, phase, history, completedSessions>>]_vars

\* the window of a stale callback: a session has expired without auto-start,
\* the deadline is gone, the next countdown is shown and the poll still runs
C26_Witness ==
    /\ mounted /\ polls # {} /\ targetRef = Null /\ ~isRunning
    /\ phase = "break" /\ completedSessions >= 1
    /\ remaining = settings.breakMin * SecPerMin

-----------------------------------------------------------------------------
(* C27 as stated: when a phase expires with auto-start on, the deadline armed
   for the next phase is the expired phase's deadline plus the next phase's
   full duration, however late the expiry was noticed. *)
C27_NoDrift ==
    [][(Commit /\ isRunning /\ isRunning' /\ targetRef # Null /\ phase' # phase) =>
        targetRef' = targetRef + FullDuration(phase', settings) * MsPerSec]_vars

-----------------------------------------------------------------------------
(* C28 as stated: a confirmed Reset All Data leaves the application at its
   defaults: no tasks, the default categories and projects, an empty history,
   the default settings, and the clock at Focus, paused, 90 minutes remaining,
   with the completed-session counter at 0. *)
C28_BackAtDefaults ==
    [][ResetAllData =>
        /\ tasks' = <<>>
        /\ categories' = DEFAULT_CATEGORIES
        /\ projects' = DEFAULT_PROJECTS
        /\ history' = EmptyHistory
        /\ settings' = defaultSettings
        /\ phase' = "focus" /\ ~isRunning'
        /\ remaining' = defaultSettings.focusMin * SecPerMin
        /\ completedSessions' = 0]_vars

-----------------------------------------------------------------------------
(* C29: with auto-start on, once started and left alone, the clock never gets
   stuck: every phase whose deadline the clock reaches expires and the other
   phase follows it, running with a deadline of its own; the phase changes
   only by expiry, and each expiry of a Focus phase adds exactly one session
   record, an expiry of a Break none. *)
C29_Expires(p) ==
    (isRunning /\ phase = p /\ targetRef # Null /\ targetRef <= Horizon)
        ~> (isRunning /\ phase = OtherPhase(p) /\ targetRef # Null /\ targetRef > now)

C29_OneRecord ==
    /\ (phase = "focus" /\ phase' = "break") =>
            NumRecords(history') = NumRecords(history) + 1
    /\ (phase = "break" /\ phase' = "focus") => history' = history
    /\ phase' = phase => history' = history

C29_NeverStuck ==
    /\ C29_Expires("focus")
    /\ C29_Expires("break")
    /\ [][C29_OneRecord]_vars

\* a second Focus phase is running: a Focus and a Break have both expired by
\* themselves and one session was recorded
C29_Witness ==
    /\ isRunning /\ phase = "focus" /\ targetRef # Null
    /\ completedSessions = 1 /\ NumRecords(history) = 1
    /\ settings.autoStartNext

-----------------------------------------------------------------------------
\* the ten digits, and a number below 100 written with exactly two of them
Digits == <<"0", "1", "2", "3", "4", "5", "6", "7", "8", "9">>

TwoDigits(n) == Digits[(n \div 10) + 1] \o Digits[(n % 10) + 1]

(* C24: for 0 <= s < 6000, secondsToClock(s) is MM:SS with MM = floor(s / 60)
   and SS = s mod 60, each written with exactly two digits, and
   60 * MM + SS = s. *)
C24_ClockFormat ==
    (call.op = "secondsToClock" /\ 0 <= call.t /\ call.t < 100 * SecPerMin) =>
        LET MM == call.t \div SecPerMin
            SS == call.t % SecPerMin
        IN  /\ call.result = JStr(TwoDigits(MM) \o ":" \o TwoDigits(SS))
            /\ Len(call.result.v) = 5
            /\ SecPerMin * MM + SS = call.t

\* 65 seconds have been formatted as 01:05, both fields padded
C24_Witness ==
    /\ call.op = "secondsToClock" /\ call.t = 65
    /\ call.result = JStr("01:05")

-----------------------------------------------------------------------------
\* no key occurs twice in the entries r
DistinctKeys(r) == \A i, j \in 1..Len(r) : i # j => r[i].key # r[j].key

(* C21 as stated: lastNDays(n) returns exactly n entries, oldest first, one
   per consecutive calendar day with distinct date-keys, the last key being
   today's key (the key a completed session is recorded under); each entry
   carries the history's day for its key, or the empty day. *)
C21_LastNDays ==
    call.op = "lastNDays" =>
        LET r == call.result.v
            n == call.value.v.n
            h == call.value.v.history
        IN  /\ Len(r) = n
            /\ r[n].key = todayKey(call.t)
            /\ \A j \in 1..n : r[j].key = ISODate(call.t - (n - j) * MsPerDay)
            /\ DistinctKeys(r)
            /\ \A j \in 1..n : r[j].data = DayOf(h, r[j].key)

-----------------------------------------------------------------------------
(* C30 as stated: in the earlier versions, when the interval has been live
   for t whole seconds and every callback ran on schedule, remaining is its
   value at Start minus t. *)
C30_WallClockRate ==
    (isRunning /\ run.at # Null /\ run.onSchedule
        /\ now = run.at + run.fired * TickEveryMs
        /\ (now - run.at) % MsPerSec = 0) =>
            remaining = run.from - (now - run.at) \div MsPerSec

====
